---- MODULE Spec2Model ----
(***************************************************************************)
(* A model of the regex compiler (src/src/compile.rs) and of the compiled  *)
(* program with its prefix analysis, anchor flags and engine dispatch      *)
(* (src/src/program.rs).                                                   *)
(*                                                                         *)
(* Characters are code points (integers).  Instruction indices are 0-based *)
(* as in the source; the instruction vector is a sequence, so instruction  *)
(* pc is At(insts, pc).  Option values are sequences: None is <<>>, Some(x)*)
(* is <<x>>.                                                               *)
(***************************************************************************)
EXTENDS Integers, Sequences, FiniteSets, TLC

VARIABLES
  stage,              \* "init", "ok" (Program built), "err", "panic"
  error,              \* the Error of Program::new: None or Some(CompiledTooBig's limit)
  ast,                \* the expression tree handed to the compiler
  size_limit,         \* Compiler.size_limit
  engine,             \* Program.engine (the override), an Option<MatchEngine>
  insts,              \* Program.insts
  cap_names,          \* Program.cap_names
  prefixes,           \* the literals handed to Prefix::new (Program.prefixes)
  prefixes_complete,  \* Program.prefixes_complete
  anchored_begin,     \* Program.anchored_begin
  anchored_end,       \* Program.anchored_end
  call,               \* the last exec call: its inputs, the engine chosen, its result
  probe,              \* the last CharRanges::matches call: instruction, character, result
  walk                \* a call of find_prefixes in progress: where it stands, its locals

vars == <<stage, error, ast, size_limit, engine, insts, cap_names, prefixes,
          prefixes_complete, anchored_begin, anchored_end, call, probe,
          walk>>

None == <<>>
Some(x) == <<x>>

Max(a, b) == IF a > b THEN a ELSE b
Min(a, b) == IF a < b THEN a ELSE b

-----------------------------------------------------------------------------
(* Program constants *)

NUM_PREFIX_LIMIT == 30
PREFIX_LENGTH_LIMIT == 15
\* size_of::<Inst>() depends on the compiler and the target: 32 bytes on a
\* 64-bit target when the discriminant shares the word of the bool of the
\* largest variant, Ranges (a 24-byte Vec and a bool).  The size limits below
\* are multiples of half of it, so no property depends on the value.
SizeOfInst == 32
MaxCodePoint == 1114111
NewLine == 10

-----------------------------------------------------------------------------
(* The instruction set, program.rs Inst *)

Match == [op |-> "Match"]
Save(n) == [op |-> "Save", slot |-> n]
Jump(t) == [op |-> "Jump", goto |-> t]
Split(x, y) == [op |-> "Split", goto1 |-> x, goto2 |-> y]
EmptyLook(l) == [op |-> "EmptyLook", look |-> l]
Char(ch, ci) == [op |-> "Char", c |-> ch, casei |-> ci]
Ranges(rs, ci) == [op |-> "Ranges", ranges |-> rs, casei |-> ci]

At(is, pc) == is[pc + 1]

IsSplit(i) == i.op = "Split"

\* CharRanges::any, any_nonl, from_class
CharRanges_any == Ranges(<< <<0, MaxCodePoint>> >>, FALSE)
CharRanges_any_nonl == Ranges(<< <<0, 9>>, <<11, MaxCodePoint>> >>, FALSE)
CharRanges_from_class(cls) == Ranges(cls.ranges, cls.casei)

\* syntax::simple_case_fold and Char::case_fold on ASCII: upper case folds to
\* lower case, everything else is unchanged.
simple_case_fold(ch) == IF ch >= 65 /\ ch <= 90 THEN ch + 32 ELSE ch

-----------------------------------------------------------------------------
(* The expression tree, syntax::Expr *)

Empty == [k |-> "Empty"]
Literal(cs, ci) == [k |-> "Literal", chars |-> cs, casei |-> ci]
AnyChar == [k |-> "AnyChar"]
AnyCharNoNL == [k |-> "AnyCharNoNL"]
Class(rs, ci) == [k |-> "Class", ranges |-> rs, casei |-> ci]
Look(l) == [k |-> l]
Group(body, idx, nm) == [k |-> "Group", e |-> body, i |-> idx, name |-> nm]
Concat(xs) == [k |-> "Concat", es |-> xs]
Alternate(xs) == [k |-> "Alternate", es |-> xs]
Repeat(body, rep, g) == [k |-> "Repeat", e |-> body, r |-> rep, greedy |-> g]

ZeroOrOne == [t |-> "ZeroOrOne"]
ZeroOrMore == [t |-> "ZeroOrMore"]
OneOrMore == [t |-> "OneOrMore"]
Range(mn, mx) == [t |-> "Range", min |-> mn, max |-> mx]

LookKinds == {"StartLine", "EndLine", "StartText", "EndText",
              "WordBoundary", "NotWordBoundary"}

-----------------------------------------------------------------------------
(* The compiler, compile.rs.  A Compiler value is [insts, cap_names, res]; *)
(* res is "Ok" until a try! fails ("Err") or the code panics ("Panic"),    *)
(* and every step is skipped once res is no longer "Ok": that is the early *)
(* return of try! and the unwinding of a panic.                            *)

Compiler_new == [insts |-> <<>>, cap_names |-> <<None>>, res |-> "Ok"]

push(self, x) ==
  IF self.res # "Ok" THEN self
  ELSE [self EXCEPT !.insts = Append(@, x)]

\* The placeholder is pushed; the caller reads its index, Len before the push.
empty_split(self) == push(self, Split(0, 0))

empty_jump(self) == push(self, Jump(0))

set_split(self, i, pc1, pc2) ==
  IF self.res # "Ok" THEN self
  ELSE IF At(self.insts, i).op = "Split"
       THEN [self EXCEPT !.insts[i + 1] = Split(pc1, pc2)]
       ELSE [self EXCEPT !.res = "Panic"]

\* set_jump that leaves the placeholder as it was pushed.
set_jump_stale(self, i, pc) ==
  IF self.res # "Ok" THEN self
  ELSE IF At(self.insts, i).op = "Jump" THEN self
       ELSE [self EXCEPT !.res = "Panic"]

set_jump(self, i, pc) ==
  IF self.res # "Ok" THEN self
  ELSE IF At(self.insts, i).op = "Jump"
       THEN [self EXCEPT !.insts[i + 1] = Jump(pc)]
       ELSE [self EXCEPT !.res = "Panic"]

check_size(self, limit) ==
  IF self.res # "Ok" THEN self
  ELSE IF Len(self.insts) * SizeOfInst > limit
       THEN [self EXCEPT !.res = "Err"]
       ELSE self

RECURSIVE c(_, _, _)
RECURSIVE c_literal(_, _, _, _)
RECURSIVE c_concat(_, _, _, _)
RECURSIVE c_times(_, _, _, _)

\* for mut c in chars { if casei { c = fold(c) } push(Char(c, casei)) }
c_literal(self, chars, casei, n) ==
  IF n > Len(chars) THEN self
  ELSE c_literal(push(self, Char(IF casei THEN simple_case_fold(chars[n])
                                          ELSE chars[n], casei)),
                 chars, casei, n + 1)

\* for e in es { try!(self.c(e)) }
c_concat(self, es, n, limit) ==
  IF n > Len(es) \/ self.res # "Ok" THEN self
  ELSE c_concat(c(self, es[n], limit), es, n + 1, limit)

\* for _ in 0..n { try!(self.c(e.clone())) }
c_times(self, e, n, limit) ==
  IF n <= 0 \/ self.res # "Ok" THEN self
  ELSE c_times(c(self, e, limit), e, n - 1, limit)

\* c_alternate whose Jump is patched to the next alternative, j2.
c_alternate_jump_next(self, es, limit) ==
  IF Len(es) = 0 THEN self
  ELSE IF Len(es) = 1 THEN c(self, es[1], limit)
  ELSE
    LET e1 == Head(es)
        e2 == Alternate(Tail(es))
        split == Len(self.insts)
        s1 == empty_split(self)
        j1 == Len(s1.insts)
        s2 == c(s1, e1, limit)
        jmp == Len(s2.insts)
        s3 == empty_jump(s2)
        j2 == Len(s3.insts)
        s4 == c(s3, e2, limit)
        j3 == Len(s4.insts)
        s5 == set_split(s4, split, j1, j2)
    IN check_size(set_jump(s5, jmp, j2), limit)

c_alternate(self, es, limit) ==
  IF Len(es) = 0 THEN self
  ELSE IF Len(es) = 1 THEN c(self, es[1], limit)
  ELSE
    LET e1 == Head(es)
        e2 == Alternate(Tail(es))
        split == Len(self.insts)
        s1 == empty_split(self)
        j1 == Len(s1.insts)
        s2 == c(s1, e1, limit)
        jmp == Len(s2.insts)
        s3 == empty_jump(s2)
        j2 == Len(s3.insts)
        s4 == c(s3, e2, limit)
        j3 == Len(s4.insts)
        s5 == set_split(s4, split, j1, j2)
    IN check_size(set_jump(s5, jmp, j3), limit)

c_zero_or_one(self, e, greedy, limit) ==
  LET split == Len(self.insts)
      s1 == empty_split(self)
      j1 == Len(s1.insts)
      s2 == c(s1, e, limit)
      j2 == Len(s2.insts)
  IN check_size(IF greedy THEN set_split(s2, split, j1, j2)
                          ELSE set_split(s2, split, j2, j1), limit)

\* c_zero_or_more with the two set_split branches exchanged.
c_zero_or_more_swapped(self, e, greedy, limit) ==
  LET j1 == Len(self.insts)
      split == Len(self.insts)
      s1 == empty_split(self)
      j2 == Len(s1.insts)
      s2 == c(s1, e, limit)
      jmp == Len(s2.insts)
      s3 == empty_jump(s2)
      j3 == Len(s3.insts)
      s4 == set_jump(s3, jmp, j1)
  IN check_size(IF greedy THEN set_split(s4, split, j3, j2)
                          ELSE set_split(s4, split, j2, j3), limit)

c_zero_or_more(self, e, greedy, limit) ==
  LET j1 == Len(self.insts)
      split == Len(self.insts)
      s1 == empty_split(self)
      j2 == Len(s1.insts)
      s2 == c(s1, e, limit)
      jmp == Len(s2.insts)
      s3 == empty_jump(s2)
      j3 == Len(s3.insts)
      s4 == set_jump(s3, jmp, j1)
  IN check_size(IF greedy THEN set_split(s4, split, j2, j3)
                          ELSE set_split(s4, split, j3, j2), limit)

c_one_or_more(self, e, greedy, limit) ==
  LET j1 == Len(self.insts)
      s1 == c(self, e, limit)
      split == Len(s1.insts)
      s2 == empty_split(s1)
      j2 == Len(s2.insts)
  IN check_size(IF greedy THEN set_split(s2, split, j1, j2)
                          ELSE set_split(s2, split, j2, j1), limit)

\* c_range that emits one ZeroOrOne too many.
c_range_one_more(self, e, min, max, greedy, limit) ==
  LET s1 == c_times(self, e, min, limit)
  IN IF max = None
     THEN check_size(c(s1, Repeat(e, ZeroOrMore, greedy), limit), limit)
     ELSE check_size(c_times(s1, Repeat(e, ZeroOrOne, greedy),
                             max[1] - min + 1, limit), limit)

c_range(self, e, min, max, greedy, limit) ==
  LET s1 == c_times(self, e, min, limit)
  IN IF max = None
     THEN check_size(c(s1, Repeat(e, ZeroOrMore, greedy), limit), limit)
     ELSE check_size(c_times(s1, Repeat(e, ZeroOrOne, greedy),
                             max[1] - min, limit), limit)

c_class(self, cls) ==
  IF Len(cls.ranges) = 1 /\ cls.ranges[1][1] = cls.ranges[1][2]
  THEN push(self, Char(cls.ranges[1][1], cls.casei))
  ELSE push(self, CharRanges_from_class(cls))

\* c_group that records the name of every Group, indexed or not.
c_group_names_all(self, g, limit) ==
  LET s0 == [self EXCEPT !.cap_names = Append(@, g.name)]
  IN IF g.i = None /\ g.name = None THEN check_size(c(s0, g.e, limit), limit)
     ELSE IF g.i = None THEN [self EXCEPT !.res = "Panic"]
     ELSE LET i == g.i[1]
              s2 == c(push(s0, Save(2 * i)), g.e, limit)
          IN check_size(push(s2, Save(2 * i + 1)), limit)

c_group(self, g, limit) ==
  IF g.i = None /\ g.name = None THEN check_size(c(self, g.e, limit), limit)
  ELSE IF g.i = None THEN [self EXCEPT !.res = "Panic"]
  ELSE LET i == g.i[1]
           s1 == [self EXCEPT !.cap_names = Append(@, g.name)]
           s2 == c(push(s1, Save(2 * i)), g.e, limit)
       IN check_size(push(s2, Save(2 * i + 1)), limit)

c(self, e, limit) ==
  IF self.res # "Ok" THEN self
  ELSE CASE e.k = "Empty" -> check_size(self, limit)
         [] e.k = "Literal" ->
              check_size(c_literal(self, e.chars, e.casei, 1), limit)
         [] e.k = "AnyChar" -> check_size(push(self, CharRanges_any), limit)
         [] e.k = "AnyCharNoNL" ->
              check_size(push(self, CharRanges_any_nonl), limit)
         [] e.k = "Class" -> check_size(c_class(self, e), limit)
         [] e.k \in LookKinds -> check_size(push(self, EmptyLook(e.k)), limit)
         [] e.k = "Group" -> c_group(self, e, limit)
         [] e.k = "Concat" -> check_size(c_concat(self, e.es, 1, limit), limit)
         [] e.k = "Alternate" -> c_alternate(self, e.es, limit)
         [] e.k = "Repeat" ->
              CASE e.r.t = "ZeroOrOne" -> c_zero_or_one(self, e.e, e.greedy, limit)
                [] e.r.t = "ZeroOrMore" -> c_zero_or_more(self, e.e, e.greedy, limit)
                [] e.r.t = "OneOrMore" -> c_one_or_more(self, e.e, e.greedy, limit)
                [] e.r.t = "Range" ->
                     c_range(self, e.e, e.r.min, e.r.max, e.greedy, limit)

\* Compiler::compile
compile(limit, e) ==
  LET s1 == c(push(Compiler_new, Save(0)), e, limit)
  IN push(push(s1, Save(1)), Match)

-----------------------------------------------------------------------------
(* Character predicates, program.rs.  An input character is None (absent,  *)
(* before the start or after the end of the text) or Some(code point).     *)

\* Char::case_fold: an absent character stays absent.
case_fold(ch) == IF ch = None THEN None ELSE Some(simple_case_fold(ch[1]))

\* Char::is_word_char: [0-9A-Za-z_]; an absent character is no word character.
is_word_char(ch) ==
  /\ ch # None
  /\ \/ ch[1] >= 48 /\ ch[1] <= 57
     \/ ch[1] >= 65 /\ ch[1] <= 90
     \/ ch[1] >= 97 /\ ch[1] <= 122
     \/ ch[1] = 95

\* OneChar::matches
OneChar_matches(inst, ch) ==
  /\ ch # None
  /\ \/ inst.c = ch[1]
     \/ inst.casei /\ inst.c = case_fold(ch)[1]

\* slice::binary_search_by with the comparator of CharRanges::matches, on
\* ranges[base+1 .. base+size] (1-based); Some(0-based index) or None.
RECURSIVE binary_search(_, _, _, _)
\* binary_search whose comparator calls a range Less when it ends at x.
binary_search_end_less(ranges, x, lo, hi) ==
  IF lo >= hi THEN None
  ELSE LET mid == lo + ((hi - lo) \div 2)
           r == ranges[mid + 1]
       IN IF r[2] <= x THEN binary_search(ranges, x, mid + 1, hi)
          ELSE IF r[1] > x THEN binary_search(ranges, x, lo, mid)
          ELSE Some(mid)

binary_search(ranges, x, lo, hi) ==
  IF lo >= hi THEN None
  ELSE LET mid == lo + ((hi - lo) \div 2)
           r == ranges[mid + 1]
       IN IF r[2] < x THEN binary_search(ranges, x, mid + 1, hi)
          ELSE IF r[1] > x THEN binary_search(ranges, x, lo, mid)
          ELSE Some(mid)

\* The linear scan of the first min(len, 4) ranges; "go on" when it falls
\* through to the binary search.
RECURSIVE linear_scan(_, _, _)
linear_scan(ranges, x, i) ==
  IF i >= Min(Len(ranges), 4) THEN <<"go on">>
  ELSE LET r == ranges[i + 1]
       IN IF x < r[1] THEN <<"return", None>>
          ELSE IF x <= r[2] THEN <<"return", Some(i)>>
          ELSE linear_scan(ranges, x, i + 1)

\* CharRanges::matches: Some(index of the range) or None.
CharRanges_matches(inst, ch) ==
  IF ch = None THEN None
  ELSE LET x == IF inst.casei THEN simple_case_fold(ch[1]) ELSE ch[1]
           scan == linear_scan(inst.ranges, x, 0)
       IN IF scan[1] = "return" THEN scan[2]
          ELSE binary_search(inst.ranges, x, 0, Len(inst.ranges))

\* LookInst::matches
LookInst_matches(look, c1, c2) ==
  CASE look = "StartLine" -> c1 = None \/ c1 = Some(NewLine)
    [] look = "EndLine" -> c2 = None \/ c2 = Some(NewLine)
    [] look = "StartText" -> c1 = None
    [] look = "EndText" -> c2 = None
    [] OTHER ->
         LET w1 == is_word_char(c1)
             w2 == is_word_char(c2)
         IN \/ look = "WordBoundary" /\ (w1 # w2)
            \/ look = "NotWordBoundary" /\ ~(w1 # w2)

-----------------------------------------------------------------------------
(* Capture accounting and prefix analysis, program.rs *)

RECURSIVE num_captures_from(_, _, _)
num_captures_from(is, k, n) ==
  IF k > Len(is) THEN n \div 2
  ELSE num_captures_from(is, k + 1,
         IF is[k].op = "Save" THEN Max(n, is[k].slot + 1) ELSE n)

num_captures(is) == num_captures_from(is, 1, 0)

RECURSIVE num_chars_in_ranges_from(_, _)
num_chars_in_ranges_from(ranges, k) ==
  IF k > Len(ranges) THEN 0
  ELSE (ranges[k][2] - ranges[k][1]) + num_chars_in_ranges_from(ranges, k + 1)

num_chars_in_ranges(ranges) == num_chars_in_ranges_from(ranges, 1)

RECURSIVE leads_to_match(_, _)
\* leads_to_match that also walks through EmptyLook instructions.
leads_to_match_looks(is, pc) ==
  LET inst == At(is, pc)
  IN CASE inst.op = "Match" -> TRUE
       [] inst.op = "Save" -> leads_to_match(is, pc + 1)
       [] inst.op = "EmptyLook" -> leads_to_match(is, pc + 1)
       [] inst.op = "Jump" -> leads_to_match(is, inst.goto)
       [] OTHER -> FALSE

leads_to_match(is, pc) ==
  LET inst == At(is, pc)
  IN CASE inst.op = "Match" -> TRUE
       [] inst.op = "Save" -> leads_to_match(is, pc + 1)
       [] inst.op = "Jump" -> leads_to_match(is, inst.goto)
       [] OTHER -> FALSE

\* for alt in &mut alts { alt.push(c) }
push_all(alts, ch) == [k \in 1..Len(alts) |-> Append(alts[k], ch)]

\* for c in s..e+1 { for alt in &orig { alts.push(alt + c) } }
RECURSIVE expand_chars(_, _, _)
expand_chars(orig, lo, hi) ==
  IF lo > hi THEN <<>>
  ELSE push_all(orig, lo) \o expand_chars(orig, lo + 1, hi)

\* for &(s, e) in ranges { ... }
RECURSIVE expand_ranges(_, _, _)
expand_ranges(orig, ranges, k) ==
  IF k > Len(ranges) THEN <<>>
  ELSE expand_chars(orig, ranges[k][1], ranges[k][2])
         \o expand_ranges(orig, ranges, k + 1)

\* The loop of prefixes_from_insts; its result is <<alts, complete>>.
RECURSIVE prefixes_loop(_, _, _)
prefixes_loop(is, pc, alts) ==
  IF pc >= Len(is) THEN <<alts, TRUE>>
  ELSE LET inst == At(is, pc)
       IN IF Len(alts[1]) > PREFIX_LENGTH_LIMIT THEN <<alts, FALSE>>
          ELSE CASE inst.op = "Save" -> prefixes_loop(is, pc + 1, alts)
                 [] inst.op = "Char" /\ ~inst.casei ->
                      prefixes_loop(is, pc + 1, push_all(alts, inst.c))
                 [] inst.op = "Ranges" /\ ~inst.casei ->
                      IF Len(alts) * num_chars_in_ranges(inst.ranges)
                           > NUM_PREFIX_LIMIT
                      THEN <<alts, FALSE>>
                      ELSE prefixes_loop(is, pc + 1,
                                         expand_ranges(alts, inst.ranges, 1))
                 [] inst.op = "Jump" -> prefixes_loop(is, inst.goto, alts)
                 [] OTHER -> <<alts, leads_to_match(is, pc)>>

prefixes_from_insts(is, pc) ==
  LET r == prefixes_loop(is, pc, << <<>> >>)
  IN IF Len(r[1][1]) = 0 THEN << <<>>, FALSE >> ELSE r

RECURSIVE split_walk(_, _, _, _)
\* split_walk whose base case takes a side without prefixes.
split_walk_no_empty_check(is, pc, pfx, pcomplete) ==
  LET nothing == [prefixes |-> <<>>, complete |-> FALSE]
      done(ps, cpl) == [prefixes |-> ps, complete |-> cpl /\ Len(ps) > 0]
  IN IF ~IsSplit(At(is, pc)) THEN done(pfx, pcomplete)
     ELSE LET x == At(is, pc).goto1
              y == At(is, pc).goto2
              xr == prefixes_from_insts(is, x)
              yr == prefixes_from_insts(is, y)
              xps == xr[1]
              yps == yr[1]
              sx == IsSplit(At(is, x))
              sy == IsSplit(At(is, y))
          IN CASE sx /\ sy -> nothing
               [] ~sx /\ sy ->
                    IF Len(xps) = 0 THEN nothing
                    ELSE IF Len(pfx \o xps) > NUM_PREFIX_LIMIT THEN nothing
                    ELSE split_walk(is, y, pfx \o xps, pcomplete /\ xr[2])
               [] sx /\ ~sy ->
                    IF Len(yps) = 0 THEN nothing
                    ELSE IF Len(pfx \o yps) > NUM_PREFIX_LIMIT THEN nothing
                    ELSE split_walk(is, x, pfx \o yps, pcomplete /\ yr[2])
               [] OTHER ->
                    IF Len(pfx \o xps \o yps) > NUM_PREFIX_LIMIT THEN nothing
                    ELSE done(pfx \o xps \o yps, pcomplete /\ xr[2] /\ yr[2])

\* The while loop of find_prefixes over the top-level Splits.  The result is
\* [prefixes, complete]: what the Program's two fields hold afterwards (an
\* early return leaves them Prefix::Empty and false).
split_walk(is, pc, pfx, pcomplete) ==
  LET nothing == [prefixes |-> <<>>, complete |-> FALSE]
      done(ps, cpl) == [prefixes |-> ps, complete |-> cpl /\ Len(ps) > 0]
  IN IF ~IsSplit(At(is, pc)) THEN done(pfx, pcomplete)
     ELSE LET x == At(is, pc).goto1
              y == At(is, pc).goto2
              xr == prefixes_from_insts(is, x)
              yr == prefixes_from_insts(is, y)
              xps == xr[1]
              yps == yr[1]
              sx == IsSplit(At(is, x))
              sy == IsSplit(At(is, y))
          IN CASE sx /\ sy -> nothing
               [] ~sx /\ sy ->
                    IF Len(xps) = 0 THEN nothing
                    ELSE IF Len(pfx \o xps) > NUM_PREFIX_LIMIT THEN nothing
                    ELSE split_walk(is, y, pfx \o xps, pcomplete /\ xr[2])
               [] sx /\ ~sy ->
                    IF Len(yps) = 0 THEN nothing
                    ELSE IF Len(pfx \o yps) > NUM_PREFIX_LIMIT THEN nothing
                    ELSE split_walk(is, x, pfx \o yps, pcomplete /\ yr[2])
               [] OTHER ->
                    IF Len(xps) = 0 \/ Len(yps) = 0 THEN nothing
                    ELSE IF Len(pfx \o xps \o yps) > NUM_PREFIX_LIMIT THEN nothing
                    ELSE done(pfx \o xps \o yps, pcomplete /\ xr[2] /\ yr[2])

\* Program::find_prefixes
find_prefixes(is) ==
  LET r == prefixes_from_insts(is, 1)
  IN IF Len(r[1]) > 0 THEN [prefixes |-> r[1], complete |-> r[2]]
     ELSE split_walk(is, 1, <<>>, TRUE)

-----------------------------------------------------------------------------
(* find_prefixes, iteration by iteration.  A walk is the call's position   *)
(* and locals: at is "idle" (not called), "pfi" (head of the loop of       *)
(* prefixes_from_insts, locals ipc and alts), "ltm" (head of the loop of   *)
(* leads_to_match, local lpc), "split" (head of the while let of           *)
(* find_prefixes, locals pc, prefixes, pcomplete) or "done" (returned);    *)
(* phase tells which call of prefixes_from_insts is running, that of line  *)
(* 316 ("first"), 326 ("x") or 327 ("y"); xr is the result of the call for *)
(* x; how names the return taken and installed tells whether it stored     *)
(* prefixes and pcomplete in the Program.                                  *)

NoWalk ==
  [at |-> "idle", phase |-> "first", pc |-> 0, prefixes |-> <<>>,
   pcomplete |-> TRUE, xr |-> << <<>>, FALSE >>, ipc |-> 0, alts |-> <<>>,
   lpc |-> 0, how |-> "none", installed |-> FALSE]

\* self.prefixes_from_insts(pc0): pc = pc0, alts = vec![String::new()].
walk_call(w, phase, pc0) ==
  [w EXCEPT !.at = "pfi", !.phase = phase, !.ipc = pc0, !.alts = << <<>> >>]

\* A return of find_prefixes that stores nothing.
walk_return(w, how) == [w EXCEPT !.at = "done", !.how = how]

\* A return of find_prefixes after storing ps and cpl.
walk_install(w, ps, cpl, how) ==
  [w EXCEPT !.at = "done", !.how = how, !.installed = TRUE,
            !.prefixes = ps, !.pcomplete = cpl]

\* The match of the while let's body on the results for x and y, the test
\* of NUM_PREFIX_LIMIT after it, and the break of the base case.
split_arms(is, w, xr, yr) ==
  LET x == At(is, w.pc).goto1
      y == At(is, w.pc).goto2
      xps == xr[1]
      yps == yr[1]
      sx == IsSplit(At(is, x))
      sy == IsSplit(At(is, y))
      all == w.prefixes \o xps \o yps
  IN CASE sx /\ sy -> walk_return(w, "both splits")
       [] ~sx /\ sy ->
            IF Len(xps) = 0 THEN walk_return(w, "empty side")
            ELSE IF Len(w.prefixes \o xps) > NUM_PREFIX_LIMIT
                 THEN walk_return(w, "limit")
                 ELSE [w EXCEPT !.at = "split", !.pc = y,
                                !.prefixes = @ \o xps, !.pcomplete = @ /\ xr[2]]
       [] sx /\ ~sy ->
            IF Len(yps) = 0 THEN walk_return(w, "empty side")
            ELSE IF Len(w.prefixes \o yps) > NUM_PREFIX_LIMIT
                 THEN walk_return(w, "limit")
                 ELSE [w EXCEPT !.at = "split", !.pc = x,
                                !.prefixes = @ \o yps, !.pcomplete = @ /\ yr[2]]
       [] OTHER ->
            IF Len(xps) = 0 \/ Len(yps) = 0 THEN walk_return(w, "empty side")
            ELSE IF Len(all) > NUM_PREFIX_LIMIT THEN walk_return(w, "limit")
            ELSE walk_install(w, all,
                              w.pcomplete /\ xr[2] /\ yr[2] /\ Len(all) > 0,
                              "base case")

\* The return of prefixes_from_insts with the flag complete, and what its
\* caller does with the result up to the next loop head.
prefixes_return(is, w, complete) ==
  LET r == IF Len(w.alts[1]) = 0 THEN << <<>>, FALSE >> ELSE <<w.alts, complete>>
  IN CASE w.phase = "first" ->
            IF Len(r[1]) > 0 THEN walk_install(w, r[1], r[2], "prefixes at 1")
            ELSE [w EXCEPT !.at = "split", !.pc = 1, !.prefixes = <<>>,
                           !.pcomplete = TRUE]
       [] w.phase = "x" ->
            walk_call([w EXCEPT !.xr = r], "y", At(is, w.pc).goto2)
       [] w.phase = "y" -> split_arms(is, w, w.xr, r)

\* prefixes_step whose Save arm leaves pc where it is.
prefixes_step_save_stays(is, w) ==
  IF w.ipc >= Len(is) THEN prefixes_return(is, w, TRUE)
  ELSE LET inst == At(is, w.ipc)
       IN IF Len(w.alts[1]) > PREFIX_LENGTH_LIMIT
          THEN prefixes_return(is, w, FALSE)
          ELSE CASE inst.op = "Save" -> w
                 [] inst.op = "Char" /\ ~inst.casei ->
                      [w EXCEPT !.ipc = @ + 1, !.alts = push_all(@, inst.c)]
                 [] inst.op = "Ranges" /\ ~inst.casei ->
                      IF Len(w.alts) * num_chars_in_ranges(inst.ranges)
                           > NUM_PREFIX_LIMIT
                      THEN prefixes_return(is, w, FALSE)
                      ELSE [w EXCEPT !.ipc = @ + 1,
                                     !.alts = expand_ranges(@, inst.ranges, 1)]
                 [] inst.op = "Jump" -> [w EXCEPT !.ipc = inst.goto]
                 [] OTHER -> [w EXCEPT !.at = "ltm", !.lpc = w.ipc]

\* One iteration of the loop of prefixes_from_insts.
prefixes_step(is, w) ==
  IF w.ipc >= Len(is) THEN prefixes_return(is, w, TRUE)
  ELSE LET inst == At(is, w.ipc)
       IN IF Len(w.alts[1]) > PREFIX_LENGTH_LIMIT
          THEN prefixes_return(is, w, FALSE)
          ELSE CASE inst.op = "Save" -> [w EXCEPT !.ipc = @ + 1]
                 [] inst.op = "Char" /\ ~inst.casei ->
                      [w EXCEPT !.ipc = @ + 1, !.alts = push_all(@, inst.c)]
                 [] inst.op = "Ranges" /\ ~inst.casei ->
                      IF Len(w.alts) * num_chars_in_ranges(inst.ranges)
                           > NUM_PREFIX_LIMIT
                      THEN prefixes_return(is, w, FALSE)
                      ELSE [w EXCEPT !.ipc = @ + 1,
                                     !.alts = expand_ranges(@, inst.ranges, 1)]
                 [] inst.op = "Jump" -> [w EXCEPT !.ipc = inst.goto]
                 [] OTHER -> [w EXCEPT !.at = "ltm", !.lpc = w.ipc]

\* One iteration of the loop of leads_to_match.
leads_step(is, w) ==
  LET inst == At(is, w.lpc)
  IN CASE inst.op = "Match" -> prefixes_return(is, w, TRUE)
       [] inst.op = "Save" -> [w EXCEPT !.lpc = @ + 1]
       [] inst.op = "Jump" -> [w EXCEPT !.lpc = inst.goto]
       [] OTHER -> prefixes_return(is, w, FALSE)

\* The head of the while let: the loop ends when insts[pc] is no Split, and
\* else its body starts with the call for x.
split_step(is, w) ==
  IF ~IsSplit(At(is, w.pc))
  THEN walk_install(w, w.prefixes, w.pcomplete /\ Len(w.prefixes) > 0, "no split")
  ELSE walk_call(w, "x", At(is, w.pc).goto1)

-----------------------------------------------------------------------------
(* Execution of a program on a text, by the meaning the Inst enum gives    *)
(* each instruction (the engines' own step code is in nfa.rs and           *)
(* backtrack.rs).  A thread is <<pc, pos>>: the next instruction and the    *)
(* number of characters of the text already consumed.                      *)

\* The character before (c1) and at (c2) position pos of the text.
CharBefore(text, pos) == IF pos >= 1 THEN Some(text[pos]) ELSE None
CharAtPos(text, pos) == IF pos < Len(text) THEN Some(text[pos + 1]) ELSE None

\* The threads one step of instruction pc leads to; EmptyLook instructions
\* are passable only when looks is TRUE.
Step(is, text, th, looks) ==
  LET pc == th[1]
      pos == th[2]
      inst == At(is, pc)
  IN CASE inst.op = "Match" -> {}
       [] inst.op = "Save" -> {<<pc + 1, pos>>}
       [] inst.op = "Jump" -> {<<inst.goto, pos>>}
       [] inst.op = "Split" -> {<<inst.goto1, pos>>, <<inst.goto2, pos>>}
       [] inst.op = "EmptyLook" ->
            IF looks /\ LookInst_matches(inst.look, CharBefore(text, pos),
                                         CharAtPos(text, pos))
            THEN {<<pc + 1, pos>>} ELSE {}
       [] inst.op = "Char" ->
            IF OneChar_matches(inst, CharAtPos(text, pos))
            THEN {<<pc + 1, pos + 1>>} ELSE {}
       [] inst.op = "Ranges" ->
            IF CharRanges_matches(inst, CharAtPos(text, pos)) # None
            THEN {<<pc + 1, pos + 1>>} ELSE {}

\* All threads reachable from the threads of seen; todo are the threads of
\* seen whose successors are still to be added.
RECURSIVE Reach(_, _, _, _, _)
Reach(is, text, looks, seen, todo) ==
  IF todo = {} THEN seen
  ELSE LET next == UNION {Step(is, text, th, looks) : th \in todo} \ seen
       IN Reach(is, text, looks, seen \cup next, next)

\* The positions at which a match that starts at position s can end: the
\* paths from instruction 0 (Save(0), then instruction 1) to Match.
MatchEnds(is, text, s) ==
  {th[2] : th \in {t \in Reach(is, text, TRUE, {<<0, s>>}, {<<0, s>>}) :
                     At(is, t[1]).op = "Match"}}

\* text is accepted as a whole along a path without any EmptyLook.
AcceptsPlain(is, text) ==
  \E th \in Reach(is, text, FALSE, {<<1, 0>>}, {<<1, 0>>}) :
     At(is, th[1]).op = "Match" /\ th[2] = Len(text)

\* p occurs in text at position s.
OccursAt(p, text, s) ==
  /\ s + Len(p) <= Len(text)
  /\ \A k \in 1..Len(p) : text[s + k] = p[k]

Seqs(S, n) == UNION {[1..k -> S] : k \in 0..n}

-----------------------------------------------------------------------------
(* The matching engines (Backtrack, Nfa) and the literal matcher (Prefix)  *)
(* that exec dispatches to.                                                *)

\* Leftmost-first execution from thread th: Split tries its first target
\* first, a thread met twice fails (the visited set of the backtracker), and
\* Save(n) records the position when the capture vector has slot n.
RECURSIVE bt(_, _, _, _, _)
bt(is, text, th, caps, visited) ==
  IF th \in visited THEN [found |-> FALSE, caps |-> caps, visited |-> visited]
  ELSE LET pc == th[1]
           pos == th[2]
           inst == At(is, pc)
           v == visited \cup {th}
           fail == [found |-> FALSE, caps |-> caps, visited |-> v]
       IN CASE inst.op = "Match" ->
                 [found |-> TRUE, caps |-> caps, visited |-> v]
            [] inst.op = "Save" ->
                 bt(is, text, <<pc + 1, pos>>,
                    IF inst.slot < Len(caps)
                    THEN [caps EXCEPT ![inst.slot + 1] = Some(pos)] ELSE caps, v)
            [] inst.op = "Split" ->
                 LET r1 == bt(is, text, <<inst.goto1, pos>>, caps, v)
                 IN IF r1.found THEN r1
                    ELSE bt(is, text, <<inst.goto2, pos>>, caps, r1.visited)
            [] OTHER ->
                 LET next == Step(is, text, th, TRUE)
                 IN IF next = {} THEN fail
                    ELSE bt(is, text, CHOOSE n \in next : TRUE, caps, v)

\* Backtrack::exec and Nfa::exec: the leftmost match starting at or after
\* start; [ret, caps].
RECURSIVE engine_exec(_, _, _, _)
engine_exec(is, caps, text, start) ==
  IF start > Len(text) THEN [ret |-> FALSE, caps |-> caps]
  ELSE LET r == bt(is, text, <<0, start>>, caps, {})
       IN IF r.found THEN [ret |-> TRUE, caps |-> r.caps]
          ELSE engine_exec(is, caps, text, start + 1)

\* Prefix::find: the hits (s, e) the literal matcher may report as its first
\* one in haystack; the empty matcher reports (0, 0).
Prefix_find(pfx, haystack) ==
  IF Len(pfx) = 0 THEN {<<0, 0>>}
  ELSE {<<s, s + Len(pfx[k])>> : <<k, s>> \in
          {ks \in (1..Len(pfx)) \X (0..Len(haystack)) :
             OccursAt(pfx[ks[1]], haystack, ks[2])}}

-----------------------------------------------------------------------------
(* Program::exec and Program::choose_engine *)

\* choose_engine; pp is self.prefixes.preserves_priority() and se is
\* Backtrack::should_exec(self, text), both read only when no engine is set.
\* choose_engine that takes Literals without asking for complete prefixes.
choose_engine_incomplete(eng, cap_len, pp, complete, se) ==
  IF eng # None THEN eng[1]
  ELSE IF cap_len <= 2 /\ pp THEN "Literals"
  ELSE IF se THEN "Backtrack"
  ELSE "Nfa"

choose_engine(eng, cap_len, pp, complete, se) ==
  IF eng # None THEN eng[1]
  ELSE IF cap_len <= 2 /\ pp /\ complete THEN "Literals"
  ELSE IF se THEN "Backtrack"
  ELSE "Nfa"

\* The Literals arm of exec on the hit the matcher reported (None or Some).
exec_literals(caps, start, hit) ==
  IF hit = None THEN [ret |-> FALSE, caps |-> caps]
  ELSE [ret |-> TRUE,
        caps |-> IF Len(caps) = 2
                 THEN <<Some(start + hit[1][1]), Some(start + hit[1][2])>>
                 ELSE caps]

-----------------------------------------------------------------------------
(* Bounds and inputs *)

\* The largest count of a Repeat's Range.
MaxRep == 3
\* The longest text the matching of a program is examined on (one more than
\* MaxRep, so that one repetition too many fits).
MaxTextLen == 4
\* The longest text of an exec call.
MaxExecLen == 2

\* Regex::with_engine(None, 10 * (1 << 20), re) of the tests.
DefaultSizeLimit == 10485760

Alphabet == {97, 98, NewLine}
Texts == Seqs(Alphabet, MaxTextLen)
ExecTexts == Seqs({97, 98}, MaxExecLen)

LitA == Literal(<<97>>, FALSE)
LitB == Literal(<<98>>, FALSE)
LitAB == Literal(<<97, 98>>, FALSE)
LitCI == Literal(<<65>>, TRUE)
ClassAB == Class(<< <<97, 98>> >>, FALSE)
ClassA == Class(<< <<97, 97>> >>, FALSE)
ClassAC == Class(<< <<97, 97>>, <<99, 99>> >>, FALSE)
ClassCI == Class(<< <<97, 98>> >>, TRUE)
\* A literal of n characters, a b a b ...
LongLit(n) == Literal([k \in 1..n |-> 97 + ((k + 1) % 2)], FALSE)
\* [a-e][a-g]: 5 * 7 alternatives; the first n + 1 capital letters.
ClassAE == Class(<< <<97, 101>> >>, FALSE)
ClassAG == Class(<< <<97, 103>> >>, FALSE)
Wide(n) == Class(<< <<65, 65 + n>> >>, FALSE)

Atoms ==
  {Empty, LitA, LitB, LitAB, LitCI, AnyChar, AnyCharNoNL,
   ClassAB, ClassA, ClassAC, ClassCI} \cup {Look(l) : l \in LookKinds}

Repeaters ==
  {ZeroOrOne, ZeroOrMore, OneOrMore}
    \cup {Range(mn, None) : mn \in 0..MaxRep}
    \cup {Range(ms[1], Some(ms[2])) :
            ms \in {m \in (0..MaxRep) \X (0..MaxRep) : m[1] <= m[2]}}

Bodies ==
  {LitA, Empty, ClassAB, Alternate(<<LitA, LitB>>),
   Group(LitA, Some(1), None), Repeat(LitA, ZeroOrOne, TRUE)}

Repeats == {Repeat(e, r, g) : e \in Bodies, r \in Repeaters, g \in BOOLEAN}

Groups ==
  {Group(e, i, n) : e \in {LitA, Alternate(<<LitA, LitB>>)},
                    i \in {None, Some(1)}, n \in {None, Some("n")}}

Parts ==
  {Empty, LitA, LitB, LitAB, LitCI, ClassAB, Look("StartText"), Look("EndText"),
   Look("WordBoundary"), Repeat(LitA, ZeroOrOne, TRUE),
   Repeat(LitB, ZeroOrMore, TRUE), Repeat(LitA, OneOrMore, FALSE),
   Concat(<<LitB, Look("EndText")>>),
   Repeat(Repeat(LitA, ZeroOrOne, TRUE), OneOrMore, TRUE),
   Repeat(Look("EndText"), ZeroOrOne, TRUE)}

Pairs ==
  {Concat(<<x, y>>) : x, y \in Parts} \cup {Alternate(<<x, y>>) : x, y \in Parts}
    \cup {Concat(<<x, Group(LitB, Some(1), None)>>) : x \in Parts}
    \cup {Alternate(<<Group(LitB, Some(1), None), x>>) : x \in Parts}

Lists ==
  {Alternate(<<>>), Concat(<<>>), Alternate(<<LitA>>),
   Concat(<<Group(LitA, Some(1), None), Group(LitB, Some(2), Some("n"))>>),
   Concat(<<Repeat(Group(LitA, Some(1), None), Range(0, Some(0)), TRUE),
            Group(LitB, Some(2), None)>>)}
    \cup {Alternate(<<x, y, z>>) :
            x, y, z \in {LitA, LitAB, Concat(<<LitB, Look("EndText")>>)}}
    \cup {Concat(<<r, x>>) : r \in Repeats, x \in {LitB, Look("EndText")}}

Stress ==
  {LongLit(PREFIX_LENGTH_LIMIT - 1), LongLit(PREFIX_LENGTH_LIMIT),
   LongLit(PREFIX_LENGTH_LIMIT + 1), LongLit(PREFIX_LENGTH_LIMIT + 2),
   Wide(NUM_PREFIX_LIMIT - 2), Wide(NUM_PREFIX_LIMIT - 1), Wide(NUM_PREFIX_LIMIT),
   Wide(NUM_PREFIX_LIMIT + 1), Concat(<<ClassAE, ClassAG>>),
   Concat(<<ClassAE, ClassAE>>),
   Alternate(<<Wide(NUM_PREFIX_LIMIT - 1), LitA>>)}

Exprs == Atoms \cup Repeats \cup Groups \cup Pairs \cup Lists \cup Stress

\* The trees compiled under every size limit, and the limits.
SizeExprs ==
  {Empty, LitA, LitAB, Alternate(<<>>), Alternate(<<LitA>>),
   Alternate(<<LitA, LitB>>), Concat(<<LitA, LitB>>),
   Group(LitA, Some(1), None), Group(LitA, None, None)}
    \cup {Repeat(LitA, r, TRUE) : r \in Repeaters}
SizeLimits == {n * (SizeOfInst \div 2) : n \in 0..(2 * (MaxRep + 4))}

\* The trees whose programs are run with an engine set.
ExecExprs ==
  {Empty, LitA, LitAB, ClassAB, LitCI, Alternate(<<LitA, LitB>>),
   Alternate(<<LitA, LitAB>>), Alternate(<<LitAB, LitB>>),
   Group(LitA, Some(1), None), Group(LitAB, Some(1), Some("n")),
   Concat(<<LitA, Group(LitB, Some(1), None)>>),
   Concat(<<Group(LitA, Some(1), None), Group(LitB, Some(2), None)>>),
   Repeat(LitA, ZeroOrMore, TRUE), Repeat(LitA, ZeroOrMore, FALSE),
   Repeat(LitA, OneOrMore, TRUE), Repeat(LitA, ZeroOrOne, FALSE),
   Concat(<<LitA, Repeat(LitB, ZeroOrOne, TRUE)>>),
   Concat(<<Look("StartText"), LitA>>), Concat(<<LitB, Look("EndText")>>),
   Group(LitA, None, Some("n"))}
Engines == {Some("Backtrack"), Some("Nfa"), Some("Literals")}

\* The longest range list of a class whose Ranges instruction is probed; the
\* ranges from the fifth on are those the binary search answers for.
MaxRanges == 6
\* The end points of those ranges and the characters probed: @ A B C and
\* ` a b c d, so that folding takes a character from one run into the other.
RangePoints == {64, 65, 66, 67, 96, 97, 98, 99, 100}

\* The sorted, non-overlapping lists of at most k ranges with end points in
\* pts (a CharClass is kept in this form).
RECURSIVE RangeLists(_, _)
RangeLists(pts, k) ==
  IF k = 0 THEN {<<>>}
  ELSE {<<>>} \cup
       UNION {{<< r >> \o rest : rest \in RangeLists({q \in pts : q > r[2]}, k - 1)} :
                r \in {pq \in pts \X pts : pq[1] <= pq[2]}}

\* The classes probed: every such list of at least one range, with and
\* without case folding.
RangeExprs ==
  {Class(rs, ci) : rs \in RangeLists(RangePoints, MaxRanges) \ {<<>>},
                   ci \in BOOLEAN}
ProbeChars == {None} \cup {Some(x) : x \in RangePoints}

\* Loops inside loops, bare and before a literal: the trees whose programs
\* hold Splits and Jumps that point back at one another.
Loops ==
  LET kinds == {ZeroOrOne, ZeroOrMore, OneOrMore}
      nested == {Repeat(Repeat(e, r1, g1), r2, g2) :
                   e \in {Empty, LitA, Alternate(<<LitA, Empty>>)},
                   r1 \in kinds, r2 \in kinds, g1 \in BOOLEAN, g2 \in BOOLEAN}
  IN nested \cup {Concat(<<n, LitB>>) : n \in nested}
            \cup {Alternate(<<n, LitB>>) : n \in nested}
WalkExprs == Exprs \cup Loops

-----------------------------------------------------------------------------
(* The state machine *)

NoCall == [made |-> FALSE]

\* The Program's fields before Program::new has run.
Unbuilt ==
  /\ stage = "init"
  /\ error = None
  /\ insts = <<>>
  /\ cap_names = <<>>
  /\ prefixes = <<>>
  /\ prefixes_complete = FALSE
  /\ anchored_begin = FALSE
  /\ anchored_end = FALSE
  /\ call = NoCall
  /\ probe = NoCall
  /\ walk = NoWalk

\* Program::new(engine, size_limit, re) followed by exec calls.
Init ==
  /\ Unbuilt
  /\ ast \in ExecExprs
  /\ size_limit = DefaultSizeLimit
  /\ engine \in {None} \cup Engines

\* Program::new(None, size_limit, re) on the wide set of trees, and on the
\* small ones under every size limit.
InitNew ==
  /\ Unbuilt
  /\ engine = None
  /\ \/ ast \in Exprs /\ size_limit = DefaultSizeLimit
     \/ ast \in SizeExprs /\ size_limit \in SizeLimits

IsLook(inst, l) == inst.op = "EmptyLook" /\ inst.look = l

\* The indices of the instructions of kind o.
Ops(is, o) == {k \in 0..(Len(is) - 1) : At(is, k).op = o}

\* Program::new, after the parse: compile, find_prefixes, the anchor flags.
ProgramNew ==
  /\ stage = "init"
  /\ LET r == compile(size_limit, ast)
         fp == find_prefixes(r.insts)
     IN IF r.res = "Ok"
        THEN /\ stage' = "ok"
             /\ error' = None
             /\ insts' = r.insts
             /\ cap_names' = r.cap_names
             /\ prefixes' = fp.prefixes
             /\ prefixes_complete' = fp.complete
             /\ anchored_begin' = IsLook(At(r.insts, 1), "StartText")
             /\ anchored_end' = IsLook(At(r.insts, Len(r.insts) - 3), "EndText")
        ELSE /\ stage' = IF r.res = "Err" THEN "err" ELSE "panic"
             /\ error' = IF r.res = "Err" THEN Some(size_limit) ELSE None
             /\ UNCHANGED <<insts, cap_names, prefixes, prefixes_complete,
                            anchored_begin, anchored_end>>
  /\ UNCHANGED <<ast, size_limit, engine, call, probe, walk>>

\* Program::exec(caps, text, start) on a capture vector of cap_len absent
\* slots: 0 (is_match), 2 (find) or 2 * num_captures (captures).  exec takes
\* &self and leaves the Program as it is, so a behaviour records one call.
Exec ==
  /\ stage = "ok"
  /\ ~call.made
  /\ \E text \in ExecTexts, cap_len \in {0, 2, 2 * num_captures(insts)},
        pp \in BOOLEAN, se \in BOOLEAN :
       \E start \in 0..Len(text) :
         LET caps == [k \in 1..cap_len |-> None]
             chosen == choose_engine(engine, cap_len, pp, prefixes_complete, se)
             hits == Prefix_find(prefixes, SubSeq(text, start + 1, Len(text)))
         IN \E hit \in IF hits = {} THEN {None} ELSE {Some(h) : h \in hits} :
              LET r == IF chosen = "Literals"
                       THEN exec_literals(caps, start, hit)
                       ELSE engine_exec(insts, caps, text, start)
              IN call' = [made |-> TRUE, text |-> text, start |-> start,
                          cap_len |-> cap_len, preserves_priority |-> pp,
                          should_exec |-> se, chosen |-> chosen,
                          hit |-> IF chosen = "Literals" THEN hit ELSE None,
                          ret |-> r.ret, caps |-> r.caps]
  /\ UNCHANGED <<stage, error, ast, size_limit, engine, insts, cap_names,
                 prefixes, prefixes_complete, anchored_begin, anchored_end,
                 probe, walk>>

Next == ProgramNew \/ Exec

Spec == Init /\ [][Next]_vars

\* Program::new on a character class.
InitRanges ==
  /\ Unbuilt
  /\ ast \in RangeExprs
  /\ size_limit = DefaultSizeLimit
  /\ engine = None

\* One call of CharRanges::matches on a Ranges instruction of the program,
\* as the engines make it with the character at the current position.
Matches ==
  /\ stage = "ok"
  /\ ~probe.made
  /\ \E pc \in Ops(insts, "Ranges"), ch \in ProbeChars :
       probe' = [made |-> TRUE, pc |-> pc, ch |-> ch,
                 ret |-> CharRanges_matches(At(insts, pc), ch)]
  /\ UNCHANGED <<stage, error, ast, size_limit, engine, insts, cap_names,
                 prefixes, prefixes_complete, anchored_begin, anchored_end,
                 call, walk>>

NextRanges == ProgramNew \/ Matches

\* Construction of a class's program and one probe of its Ranges.
SpecRanges == InitRanges /\ [][NextRanges]_vars

\* Program::new on the wide set of trees and on the nested loops, before a
\* call of find_prefixes on the Program (a pub fn) that is followed
\* iteration by iteration.
InitWalk ==
  /\ Unbuilt
  /\ ast \in WalkExprs
  /\ size_limit = DefaultSizeLimit
  /\ engine = None

\* The walk moves on to w; a return that installs stores the two fields.
Advance(w) ==
  /\ walk' = w
  /\ prefixes' = IF w.at = "done" /\ w.installed THEN w.prefixes ELSE prefixes
  /\ prefixes_complete' =
       IF w.at = "done" /\ w.installed THEN w.pcomplete ELSE prefixes_complete
  /\ UNCHANGED <<stage, error, ast, size_limit, engine, insts, cap_names,
                 anchored_begin, anchored_end, call, probe>>

\* prog.find_prefixes() is called: its first prefixes_from_insts(1) starts.
FindPrefixes ==
  /\ stage = "ok"
  /\ walk.at = "idle"
  /\ Advance(walk_call(walk, "first", 1))

PrefixesStep == walk.at = "pfi" /\ Advance(prefixes_step(insts, walk))

LeadsStep == walk.at = "ltm" /\ Advance(leads_step(insts, walk))

SplitStep == walk.at = "split" /\ Advance(split_step(insts, walk))

\* The iterations of a call that has started.
WalkSteps == PrefixesStep \/ LeadsStep \/ SplitStep

NextWalk == ProgramNew \/ FindPrefixes \/ PrefixesStep \/ LeadsStep \/ SplitStep

\* A call that has started runs on: each loop head is followed by its
\* iteration.
SpecWalk == InitWalk /\ [][NextWalk]_vars /\ WF_vars(WalkSteps)

\* Program construction alone.
SpecNew == InitNew /\ [][ProgramNew]_vars

-----------------------------------------------------------------------------
(* Properties of the compiled program *)

\* The targets of the Jump and Split instructions of a program.
Targets(is) ==
  {At(is, k).goto : k \in Ops(is, "Jump")}
    \cup {At(is, k).goto1 : k \in Ops(is, "Split")}
    \cup {At(is, k).goto2 : k \in Ops(is, "Split")}

\* C1: a program that compile returns starts with Save(0) and ends with
\* Save(1), Match; Match occurs once; and every Jump and Split target is an
\* index of the program other than the placeholder's 0.
C1_WellFormed ==
  stage = "ok" =>
    LET n == Len(insts)
    IN /\ n >= 3
       /\ At(insts, 0).op = "Save" /\ At(insts, 0).slot = 0
       /\ At(insts, n - 2).op = "Save" /\ At(insts, n - 2).slot = 1
       /\ At(insts, n - 1).op = "Match"
       /\ Cardinality(Ops(insts, "Match")) = 1
       /\ \A t \in Targets(insts) : t >= 1 /\ t < n

\* A built program that holds a patched Jump and a patched Split whose
\* second target is the instruction after the construct.
C1_Witness ==
  /\ stage = "ok"
  /\ Ops(insts, "Jump") # {}
  /\ \E k \in Ops(insts, "Split") : At(insts, k).goto2 = Len(insts) - 2

-----------------------------------------------------------------------------
(* Properties of the prefix analysis *)

\* Some installed prefix is a prefix of the text consumed from s to e.
StartsWithPrefix(pfx, text, s, e) ==
  \E k \in 1..Len(pfx) : s + Len(pfx[k]) <= e /\ OccursAt(pfx[k], text, s)

\* C2: when find_prefixes installs prefixes, the text consumed by any match
\* of the program, on any text and from any start position, starts with one
\* of them.
C2_PrefixSound ==
  (stage = "ok" /\ Len(prefixes) > 0) =>
    \A text \in Texts : \A s \in 0..Len(text) :
      \A e \in MatchEnds(insts, text, s) :
        StartsWithPrefix(prefixes, text, s, e)

\* Prefixes gathered by the walk over the top-level Splits, and a match that
\* begins inside the text.
C2_Witness ==
  /\ stage = "ok"
  /\ Len(prefixes) >= 2
  /\ IsSplit(At(insts, 1))
  /\ MatchEnds(insts, <<98, 97, 98>>, 1) # {}

\* C3: when prefixes_complete is set, the program accepts every installed
\* prefix as a whole along a path of Save, Jump, Split, Char and Ranges
\* instructions only.
C3_CompleteSound ==
  (stage = "ok" /\ prefixes_complete) =>
    \A k \in 1..Len(prefixes) : AcceptsPlain(insts, prefixes[k])

\* Complete prefixes of different lengths gathered over the top-level Splits.
C3_Witness ==
  /\ stage = "ok"
  /\ prefixes_complete
  /\ IsSplit(At(insts, 1))
  /\ \E j, k \in 1..Len(prefixes) : Len(prefixes[j]) < Len(prefixes[k])


\* C4: find_prefixes installs at most NUM_PREFIX_LIMIT strings, each of at
\* most PREFIX_LENGTH_LIMIT characters.
C4_PrefixLimits ==
  stage = "ok" =>
    /\ Len(prefixes) <= NUM_PREFIX_LIMIT
    /\ \A k \in 1..Len(prefixes) : Len(prefixes[k]) <= PREFIX_LENGTH_LIMIT

-----------------------------------------------------------------------------
(* Properties of Program::new *)

\* C5: when anchored_end is set, every match of the program, on any text
\* and from any start position, ends at the end of the text.
C5_AnchoredEnd ==
  (stage = "ok" /\ anchored_end) =>
    \A text \in Texts : \A s \in 0..Len(text) :
      \A e \in MatchEnds(insts, text, s) : e = Len(text)

\* The capture groups i whose closing Save(2i + 1) is in the program.
ClosedGroups(is) ==
  {i \in 0..Len(is) : \E k \in Ops(is, "Save") : At(is, k).slot = 2 * i + 1}

\* C6: cap_names has one entry per capture group, group 0 included:
\* its length is num_captures(insts) = 1 + max {i : Save(2i + 1) in insts}.
C6_CapNames ==
  stage = "ok" =>
    /\ Len(cap_names) = num_captures(insts)
    /\ \E i \in ClosedGroups(insts) :
         /\ num_captures(insts) = 1 + i
         /\ \A j \in ClosedGroups(insts) : j <= i

\* C7: a program is returned only when its instructions fit size_limit, and
\* a failure is CompiledTooBig(size_limit).
C7_SizeLimit ==
  /\ stage = "ok" => Len(insts) * SizeOfInst <= size_limit
  /\ stage = "err" => error = Some(size_limit)

-----------------------------------------------------------------------------
(* Properties of Program::exec *)

\* C8: without an engine set, exec runs Literals iff cap_len <= 2, the
\* prefixes preserve priority and are complete, else Backtrack iff
\* should_exec, else Nfa; with an engine set, exec runs that engine.
C8_EngineChoice ==
  call.made =>
    LET lit == call.cap_len <= 2 /\ call.preserves_priority /\ prefixes_complete
    IN IF engine = None
       THEN /\ call.chosen = "Literals" <=> lit
            /\ call.chosen = "Backtrack" <=> (~lit /\ call.should_exec)
            /\ call.chosen = "Nfa" <=> (~lit /\ ~call.should_exec)
       ELSE call.chosen = engine[1]

\* Literals chosen for a find (two slots) with no engine set, on a program
\* with several complete prefixes.
C8_Witness ==
  /\ call.made
  /\ engine = None
  /\ call.cap_len = 2
  /\ call.chosen = "Literals"
  /\ Len(prefixes) >= 2

\* C9: the Literals engine returns true on a hit (s, e) and then, for a
\* non-empty capture vector, slots 0 and 1 hold start + s and start + e and
\* no other slot is written; without a hit it returns false and writes none.
C9_LiteralsCaptures ==
  (call.made /\ call.chosen = "Literals") =>
    IF call.hit = None
    THEN /\ ~call.ret
         /\ \A k \in 1..call.cap_len : call.caps[k] = None
    ELSE /\ call.ret
         /\ call.cap_len > 0 =>
              /\ call.caps[1] = Some(call.start + call.hit[1][1])
              /\ call.caps[2] = Some(call.start + call.hit[1][2])
         /\ \A k \in 3..call.cap_len : call.caps[k] = None

-----------------------------------------------------------------------------
(* Bounded repetition *)

\* The program accepts the whole of text.
Accepts(is, text) == Len(text) \in MatchEnds(is, text, 0)

\* text[from+1 ..] is k consecutive strings, each accepted by the program is.
RECURSIVE Reps(_, _, _, _)
Reps(is, text, from, k) ==
  IF k = 0 THEN from = Len(text)
  ELSE \E mid \in from..Len(text) :
         /\ Accepts(is, SubSeq(text, from + 1, mid))
         /\ Reps(is, text, mid, k - 1)

\* C10: the program of Repeat{body, Range{min, Some(M)}}, min <= M, accepts
\* a text iff it is k consecutive matches of the body for some k in min..M.
C10_BoundedRepeat ==
  (/\ stage = "ok"
   /\ ast.k = "Repeat"
   /\ ast.r.t = "Range"
   /\ ast.r.max # None) =>
    LET body == compile(DefaultSizeLimit, ast.e).insts
    IN \A text \in Texts :
         Accepts(insts, text) <=>
           \E k \in ast.r.min..ast.r.max[1] : Reps(body, text, 0, k)

\* (a|b){0,3}: three repetitions are accepted, four are not.
C10_Witness ==
  /\ stage = "ok"
  /\ ast = Repeat(Alternate(<<LitA, LitB>>), Range(0, Some(3)), TRUE)
  /\ Accepts(insts, <<97, 98, 97>>)
  /\ ~Accepts(insts, <<97, 98, 97, 98>>)

-----------------------------------------------------------------------------
(* Greediness *)

\* The text a a a.
AAA == <<97, 97, 97>>

\* The end of the leftmost-first match of program is on text from 0 (an
\* Option: None without a match).
PriorityEnd(is, text) == engine_exec(is, <<None, None>>, text, 0).caps[2]

\* C11: in the program of Repeat{e, ZeroOrOne | ZeroOrMore | OneOrMore,
\* greedy} the Split's first target is the start of the body and its second
\* the instruction after the repetition when greedy, and the other way round
\* when not; and leftmost-first execution on "aaa" takes as many a's as the
\* repeater allows when greedy (a*: "aaa") and as few when not (a*?: "").
C11_GreedySplitOrder ==
  (/\ stage = "ok"
   /\ ast.k = "Repeat"
   /\ ast.r.t \in {"ZeroOrOne", "ZeroOrMore", "OneOrMore"}) =>
    LET n == Len(insts)
        after == n - 2
        split == IF ast.r.t = "OneOrMore" THEN n - 3 ELSE 1
        body == IF ast.r.t = "OneOrMore" THEN 1 ELSE 2
        most == IF ast.r.t = "ZeroOrOne" THEN 1 ELSE 3
        least == IF ast.r.t = "OneOrMore" THEN 1 ELSE 0
    IN /\ At(insts, split) =
            (IF ast.greedy THEN Split(body, after) ELSE Split(after, body))
       /\ ast.r.t = "ZeroOrMore" => At(insts, n - 3) = Jump(split)
       /\ ast.e = LitA =>
            PriorityEnd(insts, AAA) = Some(IF ast.greedy THEN most ELSE least)

\* a*? is built: its Split prefers the exit, and on "aaa" it matches "".
C11_Witness ==
  /\ stage = "ok"
  /\ ast = Repeat(LitA, ZeroOrMore, FALSE)
  /\ At(insts, 1) = Split(4, 2)
  /\ PriorityEnd(insts, AAA) = Some(0)

-----------------------------------------------------------------------------
(* Alternation *)

\* The instructions compile emits for e between Save(0) and Save(1), as they
\* stand when the code starts at index 1.
CodeOf(e) ==
  LET is == compile(DefaultSizeLimit, e).insts
  IN SubSeq(is, 2, Len(is) - 2)

\* An instruction moved d places further on.
Moved(inst, d) ==
  CASE inst.op = "Jump" -> Jump(inst.goto + d)
    [] inst.op = "Split" -> Split(inst.goto1 + d, inst.goto2 + d)
    [] OTHER -> inst

\* The code of e stands in is from index at on.
CodeAt(is, e, at) ==
  LET code == CodeOf(e)
  IN /\ at + Len(code) <= Len(is)
     /\ \A k \in 1..Len(code) : At(is, at + k - 1) = Moved(code[k], at - 1)

\* is[at .. end - 1] is the code of Alternate(es), es not empty: for each
\* alternative but the last a Split(first of e_i, start of the rest), e_i,
\* and a Jump(end); then the last alternative.
RECURSIVE AltWired(_, _, _, _)
AltWired(is, es, at, end) ==
  LET len == Len(CodeOf(es[1]))
  IN IF Len(es) = 1
     THEN CodeAt(is, es[1], at) /\ at + len = end
     ELSE /\ at + len + 2 <= end
          /\ At(is, at) = Split(at + 1, at + len + 2)
          /\ CodeAt(is, es[1], at + 1)
          /\ At(is, at + len + 1) = Jump(end)
          /\ AltWired(is, Tail(es), at + len + 2, end)

\* The end of the leftmost-first match of program is that starts at
\* position 0 of text (None when none starts there).
PriorityEndAt0(is, text) ==
  LET r == bt(is, text, <<0, 0>>, <<None, None>>, {})
  IN IF r.found THEN r.caps[2] ELSE None

\* The end of the match at 0 of the first of es that matches there.
RECURSIVE FirstAlternativeEnd(_, _)
FirstAlternativeEnd(es, text) ==
  IF Len(es) = 0 THEN None
  ELSE LET r == PriorityEndAt0(compile(DefaultSizeLimit, es[1]).insts, text)
       IN IF r # None THEN r ELSE FirstAlternativeEnd(Tail(es), text)

\* C12: the program of Alternate([e1..en]), n >= 2, is a chain of n - 1
\* Splits, the i-th with first target the first instruction of e_i and
\* second target the start of the remaining alternatives, each e_i but the
\* last followed by a Jump to the instruction after the whole alternation,
\* so that execution at a position takes the first alternative that
\* matches there;
\* Alternate([]) emits nothing and Alternate([e]) the code of e.
C12_AlternateWiring ==
  (stage = "ok" /\ ast.k = "Alternate") =>
    IF Len(ast.es) = 0 THEN insts = <<Save(0), Save(1), Match>>
    ELSE IF Len(ast.es) = 1
         THEN insts = compile(DefaultSizeLimit, ast.es[1]).insts
         ELSE /\ AltWired(insts, ast.es, 1, Len(insts) - 2)
              /\ \A text \in Texts :
                   PriorityEndAt0(insts, text)
                     = FirstAlternativeEnd(ast.es, text)

\* a|ab|b$ is built: the second Split and the second Jump are in place,
\* and on "ab" the first alternative wins over the longer second one.
C12_Witness ==
  /\ stage = "ok"
  /\ ast = Alternate(<<LitA, LitAB, Concat(<<LitB, Look("EndText")>>)>>)
  /\ At(insts, 4) = Split(5, 8)
  /\ At(insts, 7) = Jump(10)
  /\ PriorityEndAt0(insts, <<97, 98>>) = Some(1)

-----------------------------------------------------------------------------
(* Groups without an index *)

\* Program::new on the Group ast has compiled it as its body alone: the
\* same outcome, and on success the body's instructions and names.
AsBodyAlone ==
  LET b == compile(size_limit, ast.e)
  IN /\ (stage = "ok") <=> (b.res = "Ok")
     /\ (stage = "err") <=> (b.res = "Err")
     /\ stage = "ok" => insts = b.insts /\ cap_names = b.cap_names

\* C13 as stated: a Group whose index is None is compiled as its body alone
\* (no Save, no entry of cap_names, no abort) whatever its name is.
C13_UnindexedGroup ==
  (stage # "init" /\ ast.k = "Group" /\ ast.i = None) =>
    stage # "panic" /\ AsBodyAlone

\* C13 amended: a Group whose index and name are both None is compiled as
\* its body alone (no Save, no entry of cap_names, no abort); a Group whose
\* index is None and whose name is present aborts the compiler, on the
\* "capture index" expectation.
C13_UnnamedUnindexedGroup ==
  (stage # "init" /\ ast.k = "Group" /\ ast.i = None) =>
    IF ast.name = None THEN stage # "panic" /\ AsBodyAlone
    ELSE stage = "panic"

\* (?:a|b) is built: the alternation's seven instructions, Save(0) and
\* Save(1) the only Saves, and group 0 the only entry of cap_names.
C13_Witness ==
  /\ stage = "ok"
  /\ ast = Group(Alternate(<<LitA, LitB>>), None, None)
  /\ Len(insts) = 7
  /\ Ops(insts, "Save") = {0, 5}
  /\ cap_names = <<None>>

-----------------------------------------------------------------------------
(* CharRanges::matches *)

\* The indices (0-based) of the ranges that contain x.
Containing(ranges, x) ==
  {i \in 0..(Len(ranges) - 1) : ranges[i + 1][1] <= x /\ x <= ranges[i + 1][2]}

\* A scan of the whole list, range by range.
RECURSIVE FullScan(_, _, _)
FullScan(ranges, x, i) ==
  IF i >= Len(ranges) THEN None
  ELSE IF ranges[i + 1][1] <= x /\ x <= ranges[i + 1][2] THEN Some(i)
  ELSE FullScan(ranges, x, i + 1)

\* C14: on a sorted, non-overlapping range list CharRanges::matches, with x
\* folded when casei is set, returns Some(i) exactly when range i contains
\* x and None exactly when no range does; its scan of the first four ranges
\* and its binary search agree with a scan of the whole list.
C14_MatchesMembership ==
  (probe.made /\ probe.ch # None) =>
    LET inst == At(insts, probe.pc)
        x == IF inst.casei THEN simple_case_fold(probe.ch[1]) ELSE probe.ch[1]
        in == Containing(inst.ranges, x)
    IN /\ Cardinality(in) <= 1
       /\ in = {} <=> probe.ret = None
       /\ \A i \in 0..(Len(inst.ranges) - 1) : i \in in <=> probe.ret = Some(i)
       /\ probe.ret = FullScan(inst.ranges, x, 0)

\* A case-insensitive probe with a capital letter that the binary search
\* answers: the folded character lies in a range after the first four.
C14_Witness ==
  /\ probe.made
  /\ probe.ch = Some(67)
  /\ At(insts, probe.pc).casei
  /\ Len(At(insts, probe.pc).ranges) = MaxRanges
  /\ probe.ret = Some(MaxRanges - 1)

-----------------------------------------------------------------------------
(* Termination of the prefix analysis *)

\* C15: on every program the compiler produces a call of find_prefixes
\* returns: the loops of prefixes_from_insts and leads_to_match do not go
\* round a cycle of Jump and Save instructions for ever, and the walk over
\* the top-level Splits ends, also when the chain of Splits is cyclic.
C15_PrefixAnalysisTerminates == (walk.at # "idle") ~> (walk.at = "done")

\* (?:a?)+b, whose two top-level Splits point at each other: the walk has
\* gone round them and returned on exceeding NUM_PREFIX_LIMIT.
C15_Witness ==
  /\ walk.at = "done"
  /\ walk.how = "limit"
  /\ ast = Concat(<<Repeat(Repeat(LitA, ZeroOrOne, TRUE), OneOrMore, TRUE), LitB>>)
  /\ At(insts, 1) = Split(2, 3)
  /\ At(insts, 3) = Split(1, 4)
  /\ Len(walk.prefixes) = NUM_PREFIX_LIMIT

====
